---- MODULE Spec2Model ----
(***************************************************************************)
(* A model of ai_face_assistant_app.py: the ticker classifier              *)
(* (identify_market), the table normaliser (preprocess_dataframe), the     *)
(* indicator computation (calculate_technical_indicators), the trend       *)
(* verdict (analyze_stock) and the request handler (main, get_stock_data). *)
(*                                                                         *)
(* A Python str is a sequence of one-character strings.  A float is an     *)
(* exact fraction [num, den] with den > 0; np.nan / NaT is the fraction    *)
(* with den = 0.  A price text with two decimals is its value in           *)
(* hundredths.                                                             *)
(***************************************************************************)
EXTENDS Integers, Sequences, FiniteSets, TLC

VARIABLES
    pc,           \* "ready" before the call the behaviour makes, "done" after it
    stock_code,   \* identify_market: the argument of the last call
    ident,        \* identify_market: what the last call returned
    raw_df,       \* preprocess_dataframe: the argument of the last call
    pre,          \* preprocess_dataframe: how the last call ended
    closes,       \* rolling / calculate_technical_indicators: the Close column given
    window,       \* rolling: the window given
    ind,          \* the indicator columns computed from closes
    latest,       \* analyze_stock: the frame given (its last row)
    verdict,      \* analyze_stock: what the last call returned
    request,      \* main: the text entered and what the provider answered
    outcome       \* main: what the run did with the request

vars == <<pc, stock_code, ident, raw_df, pre, closes, window, ind, latest, verdict,
          request, outcome>>

----------------------------------------------------------------------------
(* Bounds of the inputs explored. *)

\* Longest ticker text given to identify_market.
MaxTickerLen == 6

\* The characters a ticker text is made of here: a lower- and an upper-case
\* letter, a digit of each leading-digit family, and a blank.
TickerChars == {"a", "Z", "0", "6", " "}

----------------------------------------------------------------------------
(* Python str methods used by identify_market. *)

Letters == {"a", "z", "A", "Z"}
DigitChars == {"0", "1", "2", "3", "4", "5", "6", "7", "8", "9"}

\* str.upper() on one character.
UpperChar(c) == IF c = "a" THEN "A" ELSE IF c = "z" THEN "Z" ELSE c

upper(s) == [i \in 1..Len(s) |-> UpperChar(s[i])]

RECURSIVE lstrip(_)
lstrip(s) == IF s # <<>> /\ Head(s) = " " THEN lstrip(Tail(s)) ELSE s

RECURSIVE rstrip(_)
rstrip(s) ==
    IF s # <<>> /\ s[Len(s)] = " " THEN rstrip(SubSeq(s, 1, Len(s) - 1)) ELSE s

\* str.strip(): leading and trailing blanks removed.
strip(s) == rstrip(lstrip(s))

\* str.isalpha(): non-empty and every character a letter.
isalpha(s) == s # <<>> /\ \A i \in 1..Len(s) : s[i] \in Letters

\* str.isdigit(): non-empty and every character a digit.
isdigit(s) == s # <<>> /\ \A i \in 1..Len(s) : s[i] \in DigitChars

\* str.zfill(width): zeros added on the left up to width.
RECURSIVE zfill(_, _)
zfill(s, width) == IF Len(s) >= width THEN s ELSE zfill(<<"0">> \o s, width)

----------------------------------------------------------------------------
(* identify_market *)

\* Length of a domestic (A-share) code.
ACodeLen == 6
\* Width a regional (HK) code is zero-padded to.
HCodeLen == 5

\* A mutant: the regional code is returned without the zero padding.
identify_market_nopad(code_in) ==
    LET code == upper(strip(code_in)) IN
    IF isalpha(code) THEN [market |-> "US", code |-> code]
    ELSE IF isdigit(code) /\ Len(code) = ACodeLen
         THEN [market |-> "A", code |-> code]
    ELSE IF isdigit(code) /\ 1 <= Len(code) /\ Len(code) <= HCodeLen
         THEN [market |-> "H", code |-> code]
    ELSE [market |-> "A", code |-> code]

\* A mutant: a 6-digit code is given a sub-exchange by its leading digit.
identify_market_subexchange(code_in) ==
    LET code == upper(strip(code_in)) IN
    IF isalpha(code) THEN [market |-> "US", code |-> code]
    ELSE IF isdigit(code) /\ Len(code) = ACodeLen
         THEN [market |-> IF code[1] \in {"6", "5", "9"} THEN "SH" ELSE "SZ",
               code |-> code]
    ELSE IF isdigit(code) /\ 1 <= Len(code) /\ Len(code) <= HCodeLen
         THEN [market |-> "H", code |-> zfill(code, HCodeLen)]
    ELSE [market |-> "A", code |-> code]

identify_market(code_in) ==
    LET code == upper(strip(code_in)) IN
    IF isalpha(code) THEN [market |-> "US", code |-> code]
    ELSE IF isdigit(code) /\ Len(code) = ACodeLen
         THEN [market |-> "A", code |-> code]
    ELSE IF isdigit(code) /\ 1 <= Len(code) /\ Len(code) <= HCodeLen
         THEN [market |-> "H", code |-> zfill(code, HCodeLen)]
    ELSE [market |-> "A", code |-> code]

\* Every ticker text of at most n characters.
RECURSIVE TextsUpTo(_)
TextsUpTo(n) ==
    IF n = 0 THEN {<<>>}
    ELSE LET shorter == TextsUpTo(n - 1) IN
         shorter \cup {<<c>> \o s : c \in TickerChars,
                                    s \in {t \in shorter : Len(t) = n - 1}}

Tickers == TextsUpTo(MaxTickerLen)

NoIdent == [market |-> "", code |-> <<>>]

\* One call identify_market(stock_code).
IdentifyMarket ==
    /\ pc = "ready"
    /\ pc' = "done"
    /\ ident' = identify_market(stock_code)
    /\ UNCHANGED <<stock_code, raw_df, pre, closes, window, ind, latest, verdict,
                   request, outcome>>

InitIdentify ==
    /\ pc = "ready"
    /\ stock_code \in Tickers
    /\ ident = NoIdent
    /\ raw_df = 0
    /\ pre = 0
    /\ closes = <<>>
    /\ window = 0
    /\ ind = 0
    /\ latest = 0
    /\ verdict = 0
    /\ request = 0
    /\ outcome = 0

NextIdentify == IdentifyMarket

SpecIdentify == InitIdentify /\ [][NextIdentify]_vars

(* The ticker entered, read without identify_market's own helpers: t is the  *)
(* text between l leading and r trailing blanks.                             *)
BlankPadded(l, r) ==
    /\ l + r <= Len(stock_code)
    /\ \A i \in 1..l : stock_code[i] = " "
    /\ \A i \in (Len(stock_code) - r + 1)..Len(stock_code) : stock_code[i] = " "

Core(l, r) == SubSeq(stock_code, l + 1, Len(stock_code) - r)

AllDigits(t) == Len(t) >= 1 /\ \A i \in 1..Len(t) : t[i] \in DigitChars
AllLetters(t) == Len(t) >= 1 /\ \A i \in 1..Len(t) : t[i] \in Letters

\* y is the upper-case form of the letter x.
UpperOf(x, y) == <<x, y>> \in {<<"a", "A">>, <<"A", "A">>, <<"z", "Z">>, <<"Z", "Z">>}

\* C1: identify_market returns a (market, code) pair for every text, and for a
\* ticker that is, between its surrounding blanks, all digits or all letters
\* of length 1 to 6: six digits give the domestic market 'A' with the same six
\* digits, one to five digits give the regional market 'H' with the digits
\* left-padded with zeros to exactly five, and letters give the international
\* market 'US' with the letters in upper case.
C1_IdentifyTotalAndCanonical ==
    pc = "done" =>
        /\ ident.market \in {"A", "H", "US"}
        /\ \A l, r \in 0..Len(stock_code) :
              BlankPadded(l, r) =>
                LET t == Core(l, r) IN
                /\ (AllDigits(t) /\ Len(t) = 6) =>
                        ident = [market |-> "A", code |-> t]
                /\ (AllDigits(t) /\ Len(t) <= 5) =>
                        /\ ident.market = "H"
                        /\ Len(ident.code) = 5
                        /\ \A i \in 1..(5 - Len(t)) : ident.code[i] = "0"
                        /\ \A i \in 1..Len(t) : ident.code[5 - Len(t) + i] = t[i]
                /\ (AllLetters(t) /\ Len(t) <= 6) =>
                        /\ ident.market = "US"
                        /\ Len(ident.code) = Len(t)
                        /\ \A i \in 1..Len(t) : UpperOf(t[i], ident.code[i])

\* C1 witness: a blank-padded two-digit ticker came back as a five-digit
\* regional code.
C1_Witness ==
    /\ pc = "done"
    /\ stock_code = <<" ", "6", "0", " ">>
    /\ ident = [market |-> "H", code |-> <<"0", "0", "0", "6", "0">>]

\* A six-digit code of the other leading-digit family.
RefCodeA == <<"0", "0", "0", "0", "0", "0">>

\* C9 as stated: a six-digit code whose leading digit is in {6,5,9} is given a
\* market value other than that of a six-digit code whose leading digit is in
\* {0,2,3}.
C9_Original ==
    (pc = "done" /\ AllDigits(stock_code) /\ Len(stock_code) = 6
        /\ stock_code[1] \in {"6", "5", "9"})
    => ident.market # identify_market(RefCodeA).market

\* C9 as amended: every six-digit ticker is given the one domestic market value
\* 'A' and keeps its digits, whatever its leading digit is; no sub-exchange is
\* chosen.
C9_OneDomesticMarket ==
    (pc = "done" /\ AllDigits(stock_code) /\ Len(stock_code) = 6)
    => /\ ident.market = "A"
       /\ ident.market = identify_market(RefCodeA).market
       /\ ident.code = stock_code

\* C9 witness: a six-digit code with leading digit 6 came back with market 'A'.
C9_Witness ==
    /\ pc = "done"
    /\ AllDigits(stock_code) /\ Len(stock_code) = 6 /\ stock_code[1] = "6"
    /\ ident.market = "A"

----------------------------------------------------------------------------
(* Floats, as exact fractions. *)

RECURSIVE GCD(_, _)
GCD(a, b) == IF b = 0 THEN a ELSE GCD(b, a % b)

Abs(n) == IF n < 0 THEN -n ELSE n

\* np.nan
NaN == [num |-> 0, den |-> 0]

\* The fraction n/d (d > 0) in lowest terms.
Frac(n, d) ==
    LET g == GCD(Abs(n), d) IN [num |-> n \div g, den |-> d \div g]

\* pd.isna
isna(x) == x.den = 0

Lcm(a, b) == (a \div GCD(a, b)) * b

\* Float arithmetic; a NaN operand gives NaN.
Add(x, y) ==
    IF isna(x) \/ isna(y) THEN NaN
    ELSE LET d == Lcm(x.den, y.den) IN
         Frac(x.num * (d \div x.den) + y.num * (d \div y.den), d)

Neg(x) == IF isna(x) THEN NaN ELSE [num |-> -x.num, den |-> x.den]

Sub(x, y) == Add(x, Neg(y))

Mul(x, y) ==
    IF isna(x) \/ isna(y) THEN NaN
    ELSE LET g1 == GCD(Abs(x.num), y.den)
             g2 == GCD(Abs(y.num), x.den)
         IN  Frac((x.num \div g1) * (y.num \div g2),
                  (x.den \div g2) * (y.den \div g1))

\* x / y for y > 0.
Div(x, y) ==
    IF isna(x) \/ isna(y) THEN NaN
    ELSE Mul(x, [num |-> y.den, den |-> y.num])

\* Float comparisons; any comparison with NaN is false.
Lt(x, y) ==
    /\ ~isna(x) /\ ~isna(y)
    /\ LET d == Lcm(x.den, y.den) IN
       x.num * (d \div x.den) < y.num * (d \div y.den)

Gt(x, y) == Lt(y, x)

Whole(n) == [num |-> n, den |-> 1]

----------------------------------------------------------------------------
(* pandas Series.rolling(window, min_periods=1).mean() *)

\* The running sum and count of observations of the window ending at i: each
\* step adds vals[i] and removes vals[i - w], skipping NaN.
RECURSIVE RollState(_, _, _)
RollState(vals, w, i) ==
    IF i = 0 THEN [sum_x |-> Whole(0), nobs |-> 0]
    ELSE LET prev == RollState(vals, w, i - 1)
             added == IF isna(vals[i]) THEN prev
                      ELSE [sum_x |-> Add(prev.sum_x, vals[i]),
                            nobs |-> prev.nobs + 1]
         IN  IF i > w /\ ~isna(vals[i - w])
             THEN [sum_x |-> Sub(added.sum_x, vals[i - w]),
                   nobs |-> added.nobs - 1]
             ELSE added

\* A mutant: min_periods left at its default, the window size.
rolling_mean_default_min_periods(vals, w, minp) ==
    [i \in 1..Len(vals) |->
        LET st == RollState(vals, w, i) IN
        IF st.nobs >= w THEN Div(st.sum_x, Whole(st.nobs)) ELSE NaN]

rolling_mean(vals, w, minp) ==
    [i \in 1..Len(vals) |->
        LET st == RollState(vals, w, i) IN
        IF st.nobs >= minp THEN Div(st.sum_x, Whole(st.nobs)) ELSE NaN]

----------------------------------------------------------------------------
(* pandas Series.ewm(span, adjust=False).mean(), ignore_na=False,          *)
(* min_periods=0.                                                           *)

\* alpha = 2 / (span + 1)
Alpha(span) == Frac(2, span + 1)

\* The state after index i: the weighted average so far, the weight the old
\* average carries, and the number of observations seen.
RECURSIVE EwmState(_, _, _)
EwmState(vals, span, i) ==
    IF i = 1
    THEN [weighted |-> vals[1], old_wt |-> Whole(1),
          nobs |-> IF isna(vals[1]) THEN 0 ELSE 1]
    ELSE LET prev == EwmState(vals, span, i - 1)
             cur == vals[i]
             nobs == prev.nobs + (IF isna(cur) THEN 0 ELSE 1)
             decayed == Mul(prev.old_wt, Sub(Whole(1), Alpha(span)))
         IN  IF ~isna(prev.weighted)
             THEN IF ~isna(cur)
                  THEN [weighted |->
                            Div(Add(Mul(decayed, prev.weighted),
                                    Mul(Alpha(span), cur)),
                                Add(decayed, Alpha(span))),
                        old_wt |-> Whole(1), nobs |-> nobs]
                  ELSE [weighted |-> prev.weighted, old_wt |-> decayed,
                        nobs |-> nobs]
             ELSE [weighted |-> cur, old_wt |-> prev.old_wt, nobs |-> nobs]

ewm_mean(vals, span) ==
    [i \in 1..Len(vals) |->
        LET st == EwmState(vals, span, i) IN
        IF st.nobs >= 1 THEN st.weighted ELSE NaN]

----------------------------------------------------------------------------
(* calculate_technical_indicators *)

\* Moving-average windows and MACD spans.
WindowShort == 5
WindowMid == 20
WindowLong == 50
SpanFast == 12
SpanSlow == 26
SpanSignal == 9

\* The columns added to a frame whose Close column is close.
calculate_technical_indicators(close) ==
    LET ema12 == ewm_mean(close, SpanFast)
        ema26 == ewm_mean(close, SpanSlow)
        DIF == [i \in 1..Len(close) |-> Sub(ema12[i], ema26[i])]
        DEA == ewm_mean(DIF, SpanSignal)
    IN  [MA5 |-> rolling_mean(close, WindowShort, 1),
         MA20 |-> rolling_mean(close, WindowMid, 1),
         MA50 |-> rolling_mean(close, WindowLong, 1),
         DIF |-> DIF,
         DEA |-> DEA,
         MACD |-> [i \in 1..Len(close) |->
                      Mul(Whole(2), Sub(DIF[i], DEA[i]))]]

\* Longest Close column given to the indicator computation.
MaxIndLen == 3

\* The Close values explored: three prices and the missing marker.
CloseVals == {NaN, Whole(1), Whole(2), Frac(5, 2)}

RECURSIVE SeqsUpTo(_, _)
SeqsUpTo(S, n) ==
    IF n = 0 THEN {<<>>}
    ELSE LET shorter == SeqsUpTo(S, n - 1) IN
         shorter \cup {Append(q, x) : x \in S,
                                      q \in {t \in shorter : Len(t) = n - 1}}

\* One call calculate_technical_indicators(df) on a frame with rows.
CalculateTechnicalIndicators ==
    /\ pc = "ready"
    /\ pc' = "done"
    /\ ind' = calculate_technical_indicators(closes)
    /\ UNCHANGED <<stock_code, ident, raw_df, pre, closes, window, latest,
                   verdict, request, outcome>>

InitIndicators ==
    /\ pc = "ready"
    /\ closes \in SeqsUpTo(CloseVals, MaxIndLen) \ {<<>>}
    /\ stock_code = <<>>
    /\ ident = NoIdent
    /\ raw_df = 0
    /\ pre = 0
    /\ window = 0
    /\ ind = 0
    /\ latest = 0
    /\ verdict = 0
    /\ request = 0
    /\ outcome = 0

NextIndicators == CalculateTechnicalIndicators

SpecIndicators == InitIndicators /\ [][NextIndicators]_vars

\* C8 as stated: where close[i] is missing every indicator is unset at i, and
\* where close[j] is set every indicator is set at j.
C8_Original ==
    pc = "done" =>
        \A i \in 1..Len(closes) :
            LET unset == {c \in {"MA5", "MA20", "MA50", "DIF", "DEA", "MACD"} :
                              isna(ind[c][i])}
            IN  IF isna(closes[i])
                THEN unset = {"MA5", "MA20", "MA50", "DIF", "DEA", "MACD"}
                ELSE unset = {}

----------------------------------------------------------------------------
(* Series.rolling(window=w, min_periods=1).mean() for any window w. *)

\* Longest Close column given to the rolling mean.
MaxSeriesLen == 6

RollVals == {NaN, Whole(1), Whole(2)}

\* The windows explored: small ones that the column outgrows, and the three
\* the program uses.
Windows == {1, 2, 3, WindowShort, WindowMid, WindowLong}

\* One evaluation of df["Close"].rolling(window=window, min_periods=1).mean().
RollingMean ==
    /\ pc = "ready"
    /\ pc' = "done"
    /\ ind' = [MA |-> rolling_mean(closes, window, 1)]
    /\ UNCHANGED <<stock_code, ident, raw_df, pre, closes, window, latest,
                   verdict, request, outcome>>

InitRolling ==
    /\ pc = "ready"
    /\ closes \in SeqsUpTo(RollVals, MaxSeriesLen) \ {<<>>}
    /\ window \in Windows
    /\ stock_code = <<>>
    /\ ident = NoIdent
    /\ raw_df = 0
    /\ pre = 0
    /\ ind = 0
    /\ latest = 0
    /\ verdict = 0
    /\ request = 0
    /\ outcome = 0

NextRolling == RollingMean

SpecRolling == InitRolling /\ [][NextRolling]_vars

\* The sum of closes[lo..hi], added up directly.
RECURSIVE RangeSum(_, _)
RangeSum(lo, hi) ==
    IF hi < lo THEN Whole(0) ELSE Add(RangeSum(lo, hi - 1), closes[hi])

AllSet == \A i \in 1..Len(closes) : ~isna(closes[i])

\* C7: when every close is set, the moving average of window w is defined at
\* every index i and is the mean of close[max(0, i-w+1) .. i]; in particular
\* for a column of k < w closes the last value is the mean of all k closes.
C7_ShrinkingWindowMean ==
    (pc = "done" /\ AllSet) =>
        /\ \A i \in 1..Len(closes) :
              LET lo == IF i - window + 1 > 1 THEN i - window + 1 ELSE 1 IN
              /\ ~isna(ind.MA[i])
              /\ Mul(ind.MA[i], Whole(i - lo + 1)) = RangeSum(lo, i)
        /\ Len(closes) < window =>
              Mul(ind.MA[Len(closes)], Whole(Len(closes)))
                  = RangeSum(1, Len(closes))

\* C7 witness: three closes under the window of five; the last moving average
\* is their mean, 5/3.
C7_Witness ==
    /\ pc = "done"
    /\ window = WindowShort
    /\ closes = <<Whole(1), Whole(2), Whole(2)>>
    /\ ind.MA[3] = Frac(5, 3)

----------------------------------------------------------------------------
(* analyze_stock *)

\* f"{x:.2f}": the text of x with two decimals, kept as its number of
\* hundredths.  x is the float nearest an exact product, so where the exact
\* product lies midway between two hundredths either may be printed.
Format2f(x) ==
    LET q == (x.num * 100) \div x.den
        r == (x.num * 100) % x.den
    IN  IF 2 * r < x.den THEN {q}
        ELSE IF 2 * r > x.den THEN {q + 1}
        ELSE {q, q + 1}

\* "暂无买入区间": no price range.
NoRange == [kind |-> "none", lo |-> 0, hi |-> 0]

\* f"{current_price * a:.2f} - {current_price * b:.2f}" with a, b in percent;
\* a missing price prints as "nan - nan".
PriceRanges(current_price, a, b) ==
    IF isna(current_price) THEN {[kind |-> "nan", lo |-> 0, hi |-> 0]}
    ELSE {[kind |-> "band", lo |-> lo, hi |-> hi] :
              lo \in Format2f(Mul(current_price, Frac(a, 100))),
              hi \in Format2f(Mul(current_price, Frac(b, 100)))}

\* A mutant: the comparisons of the moving averages are not strict.
analyze_stock_not_strict(df) ==
    IF df.kind # "rows"
    THEN {[mood |-> "no data", available |-> {}, price_range |-> NoRange,
           future_trend |-> "cannot judge"]}
    ELSE LET available == {c \in {"MA5", "MA20", "MA50"} : ~isna(df[c])} IN
         IF isna(df.MA5) \/ isna(df.MA20) \/ isna(df.MA50)
         THEN {[mood |-> IF available # {} THEN "partial" ELSE "insufficient",
                available |-> available, price_range |-> NoRange,
                future_trend |-> "cannot predict"]}
         ELSE IF ~Lt(df.MA5, df.MA20) /\ ~Lt(df.MA20, df.MA50)
              THEN {[mood |-> "bullish", available |-> available,
                     price_range |-> pr, future_trend |-> "up"] :
                        pr \in PriceRanges(df.Close, 95, 105)}
         ELSE IF ~Gt(df.MA5, df.MA20) /\ ~Gt(df.MA20, df.MA50)
              THEN {[mood |-> "bearish", available |-> available,
                     price_range |-> pr, future_trend |-> "down"] :
                        pr \in PriceRanges(df.Close, 85, 95)}
         ELSE {[mood |-> "neutral", available |-> available,
                price_range |-> pr, future_trend |-> "range"] :
                   pr \in PriceRanges(df.Close, 90, 110)}

\* The results analyze_stock(df) can return: mood, price_range, future_trend
\* (and the indicators named in the mood text).  df is None, empty, or its last
\* row.
analyze_stock(df) ==
    IF df.kind # "rows"
    THEN {[mood |-> "no data", available |-> {}, price_range |-> NoRange,
           future_trend |-> "cannot judge"]}
    ELSE LET ma5 == df.MA5
             ma20 == df.MA20
             ma50 == df.MA50
             current_price == df.Close
             available == {c \in {"MA5", "MA20", "MA50"} : ~isna(df[c])}
         IN  IF isna(ma5) \/ isna(ma20) \/ isna(ma50)
             THEN {[mood |-> IF available # {} THEN "partial" ELSE "insufficient",
                    available |-> available, price_range |-> NoRange,
                    future_trend |-> "cannot predict"]}
             ELSE IF Gt(ma5, ma20) /\ Gt(ma20, ma50)
                  THEN {[mood |-> "bullish", available |-> available,
                         price_range |-> pr, future_trend |-> "up"] :
                            pr \in PriceRanges(current_price, 95, 105)}
             ELSE IF Lt(ma5, ma20) /\ Lt(ma20, ma50)
                  THEN {[mood |-> "bearish", available |-> available,
                         price_range |-> pr, future_trend |-> "down"] :
                            pr \in PriceRanges(current_price, 85, 95)}
             ELSE {[mood |-> "neutral", available |-> available,
                    price_range |-> pr, future_trend |-> "range"] :
                       pr \in PriceRanges(current_price, 90, 110)}

\* Largest moving-average value explored.
MaxMA == 3

MAVals == {NaN} \cup {Whole(n) : n \in 1..MaxMA}

\* Last closes explored, in hundredths: 1.00, 1.01, 1.10, 2.57.
LastCloses == {NaN, Frac(100, 100), Frac(101, 100), Frac(110, 100), Frac(257, 100)}

\* The frames explored: None, an empty frame, and frames with a last row.
LatestFrames ==
    {[kind |-> k, MA5 |-> NaN, MA20 |-> NaN, MA50 |-> NaN, Close |-> NaN] :
         k \in {"None", "empty"}}
    \cup
    {[kind |-> "rows", MA5 |-> s, MA20 |-> m, MA50 |-> l, Close |-> c] :
         s \in MAVals, m \in MAVals, l \in MAVals, c \in LastCloses}

NoVerdict == [mood |-> "", available |-> {}, price_range |-> NoRange,
              future_trend |-> ""]

\* One call analyze_stock(df).
AnalyzeStock ==
    /\ pc = "ready"
    /\ pc' = "done"
    /\ verdict' \in analyze_stock(latest)
    /\ UNCHANGED <<stock_code, ident, raw_df, pre, closes, window, ind, latest,
                   request, outcome>>

InitAnalyze ==
    /\ pc = "ready"
    /\ latest \in LatestFrames
    /\ verdict = NoVerdict
    /\ stock_code = <<>>
    /\ ident = NoIdent
    /\ raw_df = 0
    /\ pre = 0
    /\ closes = <<>>
    /\ window = 0
    /\ ind = 0
    /\ request = 0
    /\ outcome = 0

NextAnalyze == AnalyzeStock

SpecAnalyze == InitAnalyze /\ [][NextAnalyze]_vars

\* The three moving averages of the last bar are set.
MAsSet ==
    latest.kind = "rows" /\ latest.MA5.den > 0 /\ latest.MA20.den > 0
        /\ latest.MA50.den > 0

\* s > m, on the fractions' numerators and denominators.
Above(s, m) == s.num * m.den > m.num * s.den

Bullish == Above(latest.MA5, latest.MA20) /\ Above(latest.MA20, latest.MA50)
Bearish == Above(latest.MA20, latest.MA5) /\ Above(latest.MA50, latest.MA20)

\* The verdict is the one the ordering of the three moving averages asks for.
VerdictByOrdering ==
    /\ verdict.mood = "bullish" <=> Bullish
    /\ verdict.mood = "bearish" <=> Bearish
    /\ verdict.mood = "neutral" <=> (~Bullish /\ ~Bearish)

\* The percentages of the last close the verdict's band is made of.
BandPercents ==
    CASE verdict.mood = "bullish" -> <<95, 105>>
      [] verdict.mood = "bearish" -> <<85, 95>>
      [] OTHER -> <<90, 110>>

\* C2 as stated: the verdict follows the strict ordering of (s, m, l) and the
\* band is [close*a, close*b] for the verdict's percentages a, b.
C2_Original ==
    (pc = "done" /\ MAsSet /\ latest.Close.den > 0) =>
        /\ VerdictByOrdering
        /\ verdict.price_range.kind = "band"
        /\ verdict.price_range.lo * 100 * latest.Close.den
              = BandPercents[1] * latest.Close.num * 100
        /\ verdict.price_range.hi * 100 * latest.Close.den
              = BandPercents[2] * latest.Close.num * 100

\* |x| <= y
Within(x, y) == x <= y /\ -x <= y

\* C2 as amended: the verdict follows the strict ordering of (s, m, l) alone,
\* and the band is the pair close*a, close*b for the verdict's percentages,
\* each printed with two decimals, so within half a hundredth of the product;
\* a missing last close prints as "nan - nan".
C2_VerdictAndRoundedBand ==
    (pc = "done" /\ MAsSet) =>
        /\ VerdictByOrdering
        /\ IF latest.Close.den = 0
           THEN verdict.price_range.kind = "nan"
           ELSE /\ verdict.price_range.kind = "band"
                /\ Within(2 * (verdict.price_range.lo * 100 * latest.Close.den
                               - BandPercents[1] * latest.Close.num * 100),
                          100 * latest.Close.den)
                /\ Within(2 * (verdict.price_range.hi * 100 * latest.Close.den
                               - BandPercents[2] * latest.Close.num * 100),
                          100 * latest.Close.den)

\* C2 witness: MA5 > MA20 > MA50 with last close 1.01 gave the bullish verdict
\* with the band printed as 0.96 - 1.06.
C2_Witness ==
    /\ pc = "done"
    /\ latest.kind = "rows"
    /\ latest.MA5 = Whole(3) /\ latest.MA20 = Whole(2) /\ latest.MA50 = Whole(1)
    /\ latest.Close = Frac(101, 100)
    /\ verdict.mood = "bullish"
    /\ verdict.price_range = [kind |-> "band", lo |-> 96, hi |-> 106]

----------------------------------------------------------------------------
(* preprocess_dataframe *)

(* A raw table is [columns, index, rows]: the set of its column names, the   *)
(* kind of its index, and its rows in source order.  A row carries the cells *)
(* the program reads: date (the Date column's cell, or the index value of a  *)
(* DatetimeIndex), close and volume (the cells of the columns resolving to   *)
(* Close and Volume; the other numeric columns are coerced as Volume is),    *)
(* and pos, its position in the source.                                      *)
(*                                                                           *)
(* Column names: CN_RIQI, CN_KAIPAN, CN_SHOUPAN, CN_CHENGJIAOLIANG and       *)
(* CN_ZHANGDIEFU stand for the provider's names 日期, 开盘, 收盘, 成交量 and  *)
(* 涨跌幅.                                                                   *)
(*                                                                           *)
(* A date cell is an ISO date text, kept as its day number (> 0), whose text *)
(* order is its date order; 0 is the text "--", which pd.to_datetime cannot  *)
(* parse and which sorts before every date text.                             *)
(* A numeric cell is a text: "1.00", "2.00", "1000" or the unparseable "--". *)

\* The fields whose keywords occur in str(col).lower().
KeywordHits(col) ==
    CASE col \in {"CN_RIQI", "Date", "Trade Date"} -> {"Date"}
      [] col \in {"CN_KAIPAN", "Open"} -> {"Open"}
      [] col \in {"CN_SHOUPAN", "Close", "Adj Close"} -> {"Close"}
      [] col \in {"CN_CHENGJIAOLIANG", "Volume"} -> {"Volume"}
      [] col = "Close Date" -> {"Date", "Close"}
      [] OTHER -> {}

\* The if/elif chain of the column mapping: the first field, in the chain's
\* order, with a keyword in the name; a name with none keeps its name.
col_map(col) ==
    LET hits == KeywordHits(col) IN
    IF "Date" \in hits THEN "Date"
    ELSE IF "Open" \in hits THEN "Open"
    ELSE IF "Close" \in hits THEN "Close"
    ELSE IF "High" \in hits THEN "High"
    ELSE IF "Low" \in hits THEN "Low"
    ELSE IF "Volume" \in hits THEN "Volume"
    ELSE IF "Amount" \in hits THEN "Amount"
    ELSE col

\* How many columns of the table carry the label after df.rename.
LabelCount(df, label) == Cardinality({c \in df.columns : col_map(c) = label})

\* pd.to_numeric(cell, errors="coerce")
to_numeric(cell) ==
    CASE cell = "1.00" -> Frac(100, 100)
      [] cell = "2.00" -> Frac(200, 100)
      [] cell = "1000" -> Frac(1000, 1)
      [] OTHER -> NaN

\* Rows kept by the sort and the cut.
max_bars == 120

\* The sort key of a row: its Date cell (a timestamp once parsed, else the
\* text).
SortKey(row) == row.date

\* The rows in ascending key order.
Ascending(rows) == SortSeq(rows, LAMBDA a, b : SortKey(a) < SortKey(b))

\* The orders DataFrame.sort_values("Date") can leave the rows in: ascending
\* by key; the default sort kind (quicksort) is not stable, so rows with equal
\* keys come in any order.
sort_values(rows) ==
    LET sorted == Ascending(rows)
        n == Len(rows)
        tied == {k \in 1..n : \E j \in 1..n :
                                  j # k /\ SortKey(sorted[j]) = SortKey(sorted[k])}
        shuffles == {f \in [tied -> tied] :
                        /\ \A k \in tied : SortKey(sorted[f[k]]) = SortKey(sorted[k])
                        /\ \A k, j \in tied : f[k] = f[j] => k = j}
    IN  {[k \in 1..n |-> IF k \in tied THEN sorted[f[k]] ELSE sorted[k]] :
            f \in shuffles}

\* DataFrame.tail(n)
tail(rows, n) ==
    IF Len(rows) <= n THEN rows ELSE SubSeq(rows, Len(rows) - n + 1, Len(rows))

\* The frame returned for rows in their final order: the numeric columns
\* coerced.
Coerced(df, has_date, parsed, rows) ==
    [kind |-> "df",
     columns |-> {col_map(c) : c \in df.columns}
                    \cup (IF has_date THEN {"Date"} ELSE {}),
     date_parsed |-> parsed,
     rows |-> [i \in 1..Len(rows) |->
                  [Date |-> rows[i].date,
                   Close |-> to_numeric(rows[i].close),
                   Volume |-> to_numeric(rows[i].volume),
                   pos |-> rows[i].pos]]]

\* The way a call ends without a frame: None returned after the missing-Close
\* error, or an exception raised.
Ended(how) == [kind |-> how, columns |-> {}, date_parsed |-> FALSE, rows |-> <<>>]

\* A mutant: the cut is taken before the sort.
preprocess_dataframe_cut_first(df) ==
    LET date_cols == LabelCount(df, "Date")
        has_date == date_cols >= 1 \/ df.index = "DatetimeIndex"
        parsed == \/ date_cols = 0 /\ df.index = "DatetimeIndex"
                  \/ date_cols = 1 /\ \A i \in 1..Len(df.rows) : df.rows[i].date # 0
    IN  IF LabelCount(df, "Close") = 0 THEN {Ended("None")}
        ELSE IF has_date /\ date_cols > 1 THEN {Ended("raised")}
        ELSE IF \E f \in {"Close", "Open", "High", "Low", "Volume", "Amount"} :
                    LabelCount(df, f) > 1
             THEN {Ended("raised")}
        ELSE IF has_date
             THEN {Coerced(df, has_date, parsed, rows) :
                      rows \in sort_values(tail(df.rows, max_bars))}
        ELSE {Coerced(df, has_date, parsed, tail(df.rows, max_bars))}

\* The ways preprocess_dataframe(df, market_type) can end.
preprocess_dataframe(df) ==
    LET date_cols == LabelCount(df, "Date")
        \* "Date" is a column after the date handling: one was renamed to it,
        \* or the DatetimeIndex was moved into it.
        has_date == date_cols >= 1 \/ df.index = "DatetimeIndex"
        \* pd.to_datetime succeeded (it raises, and the column is left as it
        \* was, on a frame of several Date columns or on an unparseable cell).
        parsed == \/ date_cols = 0 /\ df.index = "DatetimeIndex"
                  \/ date_cols = 1 /\ \A i \in 1..Len(df.rows) : df.rows[i].date # 0
    IN  IF LabelCount(df, "Close") = 0 THEN {Ended("None")}
        \* sort_values("Date") raises on a label that is not unique.
        ELSE IF has_date /\ date_cols > 1 THEN {Ended("raised")}
        \* pd.to_numeric(df[col]) raises when df[col] is several columns.
        ELSE IF \E f \in {"Close", "Open", "High", "Low", "Volume", "Amount"} :
                    LabelCount(df, f) > 1
             THEN {Ended("raised")}
        ELSE IF has_date
             THEN {Coerced(df, has_date, parsed, tail(rows, max_bars)) :
                      rows \in sort_values(df.rows)}
        ELSE {Coerced(df, has_date, parsed, tail(df.rows, max_bars))}

\* Most rows of a short raw table, and most rows put in front of the long
\* block of a table longer than max_bars.
MaxRows == 2

\* The column sets and index kinds explored: the provider's dialect, an
\* English dialect, tables without dates, with the dates in the index, without
\* a Close column, with two columns resolving to Close or to Date, with no
\* column resolving at all, and with a name holding two keywords.
Headers ==
    {[columns |-> {"CN_RIQI", "CN_KAIPAN", "CN_SHOUPAN", "CN_CHENGJIAOLIANG",
                   "CN_ZHANGDIEFU"}, index |-> "RangeIndex"],
     [columns |-> {"Date", "Open", "Close", "Volume"}, index |-> "RangeIndex"],
     [columns |-> {"Date", "Close"}, index |-> "RangeIndex"],
     [columns |-> {"Close"}, index |-> "RangeIndex"],
     [columns |-> {"Open", "Close"}, index |-> "DatetimeIndex"],
     [columns |-> {"Date", "Open", "Volume"}, index |-> "RangeIndex"],
     [columns |-> {"Date", "Close", "Adj Close"}, index |-> "RangeIndex"],
     [columns |-> {"Date", "Trade Date", "Close"}, index |-> "RangeIndex"],
     [columns |-> {"CN_ZHANGDIEFU"}, index |-> "RangeIndex"],
     [columns |-> {"Close Date", "Open"}, index |-> "RangeIndex"]}

Resolves(h, label) == \E c \in h.columns : col_map(c) = label

\* The cells a row of a table with header h can hold.
CellRows(h) ==
    {[date |-> d, close |-> c, volume |-> v] :
        d \in (IF Resolves(h, "Date") THEN {0, 1, 2}
               ELSE IF h.index = "DatetimeIndex" THEN {1, 2} ELSE {0}),
        c \in (IF Resolves(h, "Close") THEN {"1.00", "2.00", "--"} ELSE {""}),
        v \in (IF Resolves(h, "Volume") THEN {"1000", "--"} ELSE {""})}

\* The rows with their source positions.
Numbered(cells) ==
    [i \in 1..Len(cells) |->
        [date |-> cells[i].date, close |-> cells[i].close,
         volume |-> cells[i].volume, pos |-> i]]

\* Raw tables of header h and at most n rows.
TablesOf(h, n) ==
    {[columns |-> h.columns, index |-> h.index, rows |-> Numbered(cells)] :
        cells \in SeqsUpTo(CellRows(h), n)}

\* A block of max_bars - 1 rows in date order, dated 3, 4, ...
FillerLen == max_bars - 1
Filler == [i \in 1..FillerLen |-> [date |-> i + 2, close |-> "1.00", volume |-> ""]]

\* Raw tables of a date and a close column: at most n rows dated before, with
\* or after the block, or with an unparseable date, followed by the block.
LongTables(n) ==
    {[columns |-> {"Date", "Close"}, index |-> "RangeIndex",
      rows |-> Numbered(front \o Filler)] :
        front \in SeqsUpTo({[date |-> d, close |-> "2.00", volume |-> ""] :
                                d \in {0, 1, 3, 200}}, n)}

RawTables == (UNION {TablesOf(h, MaxRows) : h \in Headers}) \cup LongTables(MaxRows)

\* One call preprocess_dataframe(raw_df, market_type).
PreprocessDataframe ==
    /\ pc = "ready"
    /\ pc' = "done"
    /\ pre' \in preprocess_dataframe(raw_df)
    /\ UNCHANGED <<stock_code, ident, raw_df, closes, window, ind, latest,
                   verdict, request, outcome>>

InitPreprocess ==
    /\ pc = "ready"
    /\ raw_df \in RawTables
    /\ pre = Ended("")
    /\ stock_code = <<>>
    /\ ident = NoIdent
    /\ closes = <<>>
    /\ window = 0
    /\ ind = 0
    /\ latest = 0
    /\ verdict = 0
    /\ request = 0
    /\ outcome = 0

NextPreprocess == PreprocessDataframe

SpecPreprocess == InitPreprocess /\ [][NextPreprocess]_vars

\* Some column of the raw table resolves to the close field.
ClosePresent == \E c \in raw_df.columns : col_map(c) = "Close"

\* C3 as stated: preprocess_dataframe returns the failure value exactly when no
\* column resolves to the close field, and returns a series for every raw
\* table with a close column, its malformed cells turned into the missing
\* marker.
C3_Original ==
    pc = "done" =>
        /\ pre.kind = "None" <=> ~ClosePresent
        /\ ClosePresent =>
              /\ pre.kind = "df"
              /\ \A k \in 1..Len(pre.rows) :
                    LET cell == raw_df.rows[pre.rows[k].pos] IN
                    /\ cell.close = "--" => pre.rows[k].Close.den = 0
                    /\ cell.volume = "--" => pre.rows[k].Volume.den = 0

\* The raw table has one timestamp column and every cell of it is a date.
Timestamped ==
    /\ Cardinality({c \in raw_df.columns : col_map(c) = "Date"}) = 1
    /\ \A i \in 1..Len(raw_df.rows) : raw_df.rows[i].date > 0

\* C5 as stated: the series of a table with a timestamp column is in ascending
\* timestamp order, no two of its rows have the same timestamp, and of the
\* source rows of one timestamp the last is the one kept.
C5_Original ==
    (pc = "done" /\ pre.kind = "df" /\ Timestamped) =>
        /\ \A j, k \in 1..Len(pre.rows) :
              j < k => pre.rows[j].Date < pre.rows[k].Date
        /\ \A k \in 1..Len(pre.rows) :
              ~\E i \in 1..Len(raw_df.rows) :
                  /\ raw_df.rows[i].date = pre.rows[k].Date
                  /\ i > pre.rows[k].pos

\* The source positions of the rows of the series.
KeptPos == {pre.rows[k].pos : k \in 1..Len(pre.rows)}

\* C10: the series never has more than max_bars rows; it has every row of a
\* source of at most max_bars rows, and of a longer source exactly max_bars
\* rows, each a row of the source; where the source has timestamps they are
\* the latest ones: no row left out is later than a row kept, which is a cut
\* taken after the sort.
C10_LatestMaxBars ==
    (pc = "done" /\ pre.kind = "df") =>
        /\ Len(pre.rows) <= max_bars
        /\ Len(pre.rows) =
              (IF Len(raw_df.rows) > max_bars THEN max_bars ELSE Len(raw_df.rows))
        /\ Cardinality(KeptPos) = Len(pre.rows)
        /\ \A k \in 1..Len(pre.rows) :
              /\ pre.rows[k].pos \in 1..Len(raw_df.rows)
              /\ pre.rows[k].Date = raw_df.rows[pre.rows[k].pos].date
        /\ Timestamped =>
              /\ pre.date_parsed
              /\ \A i \in 1..Len(raw_df.rows) :
                    i \notin KeptPos =>
                        \A k \in 1..Len(pre.rows) :
                            raw_df.rows[i].date <= pre.rows[k].Date

\* C10 witness: a source of more than max_bars rows whose first row is its
\* latest; the series has max_bars rows, the last of them that row, and the
\* earliest source row (dated 1, second in the source) is left out.
C10_Witness ==
    /\ pc = "done"
    /\ pre.kind = "df"
    /\ Timestamped
    /\ Len(raw_df.rows) > max_bars
    /\ raw_df.rows[1].date = 200
    /\ raw_df.rows[2].date = 1
    /\ Len(pre.rows) = max_bars
    /\ pre.rows[max_bars].pos = 1
    /\ 2 \notin KeptPos

----------------------------------------------------------------------------
(* get_stock_data and main *)

(* A request is the text entered and what the provider's price-history call *)
(* answers for it: it raises, returns None, or returns a raw table.  The    *)
(* messages are the st.error / st.warning texts, by kind:                   *)
(*   "fetch failed"    A股/港股/美股数据获取失败                             *)
(*   "no data"         未获取到 ... 的历史行情数据                           *)
(*   "missing Close"   数据中缺少Close列                                     *)
(*   "get data failed" 获取股票数据失败                                      *)
(*   "check input"     未能获取到数据，请检查 ...                            *)

NoTable == [columns |-> {}, index |-> "RangeIndex", rows |-> <<>>]

NoFrame == [kind |-> "None", columns |-> {}, date_parsed |-> FALSE, rows |-> <<>>]

NoInd == [MA5 |-> <<>>, MA20 |-> <<>>, MA50 |-> <<>>, DIF |-> <<>>,
          DEA |-> <<>>, MACD |-> <<>>]

\* The akshare call get_stock_data makes for a market.
FetchApi(market) ==
    CASE market = "A" -> "stock_zh_a_hist"
      [] market = "H" -> "stock_hk_hist"
      [] market = "US" -> "stock_us_hist"
      [] OTHER -> ""

\* What get_stock_data left behind: the frame returned (or None) with its
\* indicator columns, where the display name comes from, the messages shown,
\* and the calls made.
Got(market, df, indicators, name_from, messages, fetches, preprocessed) ==
    [market |-> market, api |-> FetchApi(market), df |-> df, ind |-> indicators,
     name_from |-> name_from,
     messages |-> messages, fetch_calls |-> fetches,
     preprocess_calls |-> preprocessed,
     indicator_calls |-> IF df.kind = "df" THEN 1 ELSE 0,
     analyze_calls |-> 0, plot_calls |-> 0, verdict |-> NoVerdict]

\* The Close column of a frame.
CloseColumn(df) == [i \in 1..Len(df.rows) |-> df.rows[i].Close]

\* A mutant: the price-history call is made again when it gave no data.
get_stock_data_retry(code_in, answer) ==
    LET m == identify_market(code_in).market IN
    IF answer.kind = "raises"
    THEN {Got(m, NoFrame, NoInd, "safe_get_cn_name", {"fetch failed"}, 2, 0)}
    ELSE IF answer.kind = "None" \/ Len(answer.df.rows) = 0
         THEN {Got(m, NoFrame, NoInd, "safe_get_cn_name", {"no data"}, 2, 0)}
    ELSE {IF d.kind = "raised"
          THEN Got(m, NoFrame, NoInd, "stock_code", {"get data failed"}, 1, 1)
          ELSE IF d.kind = "None"
          THEN Got(m, NoFrame, NoInd, "safe_get_cn_name", {"missing Close"}, 1, 1)
          ELSE Got(m, d, calculate_technical_indicators(CloseColumn(d)),
                   "safe_get_cn_name", {}, 1, 1)
          : d \in preprocess_dataframe(answer.df)}

\* A mutant: a frame whose closes are all unparseable is rejected like a frame
\* without a Close column.
get_stock_data_reject_unparseable(code_in, answer) ==
    LET m == identify_market(code_in).market IN
    IF answer.kind = "raises"
    THEN {Got(m, NoFrame, NoInd, "safe_get_cn_name", {"fetch failed"}, 1, 0)}
    ELSE IF answer.kind = "None" \/ Len(answer.df.rows) = 0
         THEN {Got(m, NoFrame, NoInd, "safe_get_cn_name", {"no data"}, 1, 0)}
    ELSE {IF d.kind = "raised"
          THEN Got(m, NoFrame, NoInd, "stock_code", {"get data failed"}, 1, 1)
          ELSE IF d.kind = "None" \/ \A i \in 1..Len(d.rows) : isna(d.rows[i].Close)
          THEN Got(m, NoFrame, NoInd, "safe_get_cn_name", {"missing Close"}, 1, 1)
          ELSE Got(m, d, calculate_technical_indicators(CloseColumn(d)),
                   "safe_get_cn_name", {}, 1, 1)
          : d \in preprocess_dataframe(answer.df)}

\* The ways get_stock_data(stock_code) can end, given the provider's answer.
get_stock_data(code_in, answer) ==
    LET m == identify_market(code_in).market IN
    \* the market's price-history call raised
    IF answer.kind = "raises"
    THEN {Got(m, NoFrame, NoInd, "safe_get_cn_name", {"fetch failed"}, 1, 0)}
    \* df is None or df.empty
    ELSE IF answer.kind = "None" \/ Len(answer.df.rows) = 0
         THEN {Got(m, NoFrame, NoInd, "safe_get_cn_name", {"no data"}, 1, 0)}
    ELSE {\* an exception of preprocess_dataframe reaches the outer except
          IF d.kind = "raised"
          THEN Got(m, NoFrame, NoInd, "stock_code", {"get data failed"}, 1, 1)
          \* preprocess_dataframe returned None
          ELSE IF d.kind = "None"
          THEN Got(m, NoFrame, NoInd, "safe_get_cn_name", {"missing Close"}, 1, 1)
          ELSE Got(m, d, calculate_technical_indicators(CloseColumn(d)),
                   "safe_get_cn_name", {}, 1, 1)
          : d \in preprocess_dataframe(answer.df)}

\* The frame analyze_stock reads: the last row of df with its indicators.
LastRow(got) ==
    LET n == Len(got.df.rows) IN
    IF n = 0
    THEN [kind |-> "empty", MA5 |-> NaN, MA20 |-> NaN, MA50 |-> NaN, Close |-> NaN]
    ELSE [kind |-> "rows", MA5 |-> got.ind.MA5[n], MA20 |-> got.ind.MA20[n],
          MA50 |-> got.ind.MA50[n], Close |-> got.df.rows[n].Close]

\* main, with nothing entered: only the page is drawn.
MainNothingEntered ==
    /\ pc = "ready"
    /\ request.code = <<>>
    /\ pc' = "done"
    /\ UNCHANGED <<stock_code, ident, raw_df, pre, closes, window, ind, latest,
                   verdict, request, outcome>>

\* main: df, display_name = get_stock_data(code)
MainGetStockData ==
    /\ pc = "ready"
    /\ request.code # <<>>
    /\ outcome' \in get_stock_data(request.code, request.answer)
    /\ pc' = "fetched"
    /\ UNCHANGED <<stock_code, ident, raw_df, pre, closes, window, ind, latest,
                   verdict, request>>

\* main: df is None: the error messages, then return.
MainNoData ==
    /\ pc = "fetched"
    /\ outcome.df.kind = "None"
    /\ outcome' = [outcome EXCEPT !.messages = @ \cup {"check input"}]
    /\ pc' = "done"
    /\ UNCHANGED <<stock_code, ident, raw_df, pre, closes, window, ind, latest,
                   verdict, request>>

\* main: mood, price_range, future_trend = analyze_stock(df)
MainAnalyze ==
    /\ pc = "fetched"
    /\ outcome.df.kind # "None"
    /\ \E v \in analyze_stock(LastRow(outcome)) :
          outcome' = [outcome EXCEPT !.verdict = v, !.analyze_calls = @ + 1]
    /\ pc' = "analyzed"
    /\ UNCHANGED <<stock_code, ident, raw_df, pre, closes, window, ind, latest,
                   verdict, request>>

\* main: plot_stock_charts(df, display_name) and the table of the last rows.
MainPlot ==
    /\ pc = "analyzed"
    /\ outcome' = [outcome EXCEPT !.plot_calls = @ + 1]
    /\ pc' = "done"
    /\ UNCHANGED <<stock_code, ident, raw_df, pre, closes, window, ind, latest,
                   verdict, request>>

\* Most rows of a table the provider answers a request with.
MaxAnswerRows == 1

\* The texts entered: nothing, a domestic, a regional and an international
\* ticker.
Codes == {<<>>, <<"6", "0", "0", "5", "1", "9">>, <<"7", "0", "0">>,
          <<"a", "a", "p", "l">>}

AnswerHeaders ==
    {[columns |-> {"Date", "Close"}, index |-> "RangeIndex"],
     [columns |-> {"Date", "Open", "Volume"}, index |-> "RangeIndex"],
     [columns |-> {"Date", "Close", "Adj Close"}, index |-> "RangeIndex"]}

Answers ==
    {[kind |-> k, df |-> NoTable] : k \in {"raises", "None"}}
    \cup {[kind |-> "table", df |-> t] :
             t \in UNION {TablesOf(h, MaxAnswerRows) : h \in AnswerHeaders}}

Init ==
    /\ pc = "ready"
    /\ request \in {[code |-> c, answer |-> a] : c \in Codes \ {<<>>}, a \in Answers}
                   \cup {[code |-> <<>>, answer |-> [kind |-> "None", df |-> NoTable]]}
    /\ outcome = Got("", NoFrame, NoInd, "", {}, 0, 0)
    /\ stock_code = <<>>
    /\ ident = NoIdent
    /\ raw_df = 0
    /\ pre = 0
    /\ closes = <<>>
    /\ window = 0
    /\ ind = 0
    /\ latest = 0
    /\ verdict = 0

Next ==
    \/ MainNothingEntered
    \/ MainGetStockData
    \/ MainNoData
    \/ MainAnalyze
    \/ MainPlot

Spec == Init /\ [][Next]_vars

\* The provider gave no data for the text entered: its call raised, or it
\* returned None or a table without rows.
NoDataAnswered ==
    /\ request.code # <<>>
    /\ \/ request.answer.kind \in {"raises", "None"}
       \/ request.answer.kind = "table" /\ Len(request.answer.df.rows) = 0

\* C6: when the provider gives no data, get_stock_data returns no series after
\* its one price-history call, and main goes from there to its error messages
\* and stops: analyze_stock and plot_stock_charts are never called.
C6_NoDataIsTerminal ==
    (pc # "ready" /\ NoDataAnswered) =>
        /\ pc \in {"fetched", "done"}
        /\ outcome.df.kind = "None"
        /\ outcome.fetch_calls = 1
        /\ outcome.preprocess_calls = 0
        /\ outcome.indicator_calls = 0
        /\ outcome.analyze_calls = 0
        /\ outcome.plot_calls = 0
        /\ pc = "done" => "check input" \in outcome.messages

\* C6 witness: the price-history call raised and main ended on its error
\* messages after that one call.
C6_Witness ==
    /\ pc = "done"
    /\ request.answer.kind = "raises"
    /\ outcome.fetch_calls = 1
    /\ outcome.messages = {"fetch failed", "check input"}
    /\ outcome.analyze_calls = 0

\* The provider's table has rows, a column resolving to the close field, and
\* no close cell that is a number.
AllClosesUnparseable ==
    /\ request.code # <<>>
    /\ request.answer.kind = "table"
    /\ Len(request.answer.df.rows) >= 1
    /\ \E c \in request.answer.df.columns : col_map(c) = "Close"
    /\ \A i \in 1..Len(request.answer.df.rows) :
          request.answer.df.rows[i].close \notin {"1.00", "2.00", "1000"}

ZeroRows ==
    /\ request.code # <<>>
    /\ request.answer.kind = "table"
    /\ Len(request.answer.df.rows) = 0

\* C4 as stated: a table of zero rows, or with a close column none of whose
\* cells is a number, ends in a failure: no series is returned and no
\* indicators or verdict are computed.
C4_Original ==
    (pc = "done" /\ (ZeroRows \/ AllClosesUnparseable)) =>
        /\ outcome.df.kind = "None"
        /\ outcome.indicator_calls = 0
        /\ outcome.analyze_calls = 0

\* Each of the labels read by preprocess_dataframe is carried by at most one
\* column of the provider's table.
LabelsUnique ==
    \A f \in {"Date", "Close", "Open", "High", "Low", "Volume", "Amount"} :
        Cardinality({c \in request.answer.df.columns : col_map(c) = f}) <= 1

\* C4 as amended: a table of zero rows ends the request in get_stock_data's
\* no-data branch, before any normalisation.  A table with a close column none
\* of whose cells is a number is not a missing-Close failure: where
\* preprocess_dataframe returns (it does whenever no two columns resolve to one
\* label) it returns a series, all closes the missing marker; all indicators
\* are unset, and analyze_stock gives the insufficient-data verdict.
C4_UnparseableClosesPass ==
    pc = "done" =>
        /\ ZeroRows =>
              /\ outcome.df.kind = "None"
              /\ outcome.messages = {"no data", "check input"}
              /\ outcome.preprocess_calls = 0
              /\ outcome.analyze_calls = 0
        /\ AllClosesUnparseable =>
              /\ "missing Close" \notin outcome.messages
              /\ outcome.preprocess_calls = 1
              /\ LabelsUnique => outcome.df.kind = "df"
              /\ outcome.df.kind = "df" =>
                    /\ \A i \in 1..Len(outcome.df.rows) :
                          /\ outcome.df.rows[i].Close.den = 0
                          /\ \A c \in {"MA5", "MA20", "MA50", "DIF", "DEA", "MACD"} :
                                outcome.ind[c][i].den = 0
                    /\ outcome.analyze_calls = 1
                    /\ outcome.plot_calls = 1
                    /\ outcome.verdict.mood = "insufficient"
                    /\ outcome.verdict.price_range.kind = "none"

\* C4 witness: a one-row table whose close cell is "--" came back as a series
\* with a missing close and ended in the insufficient-data verdict.
C4_Witness ==
    /\ pc = "done"
    /\ AllClosesUnparseable
    /\ outcome.df.kind = "df"
    /\ Len(outcome.df.rows) = 1
    /\ outcome.df.rows[1].Close = NaN
    /\ outcome.verdict.mood = "insufficient"
    /\ outcome.messages = {}

====
